---- MODULE Spec2Model ----
(* A model of pykodi/kodi.py: the connection factory, the HTTP and WebSocket  *)
(* connections with their session ownership, and the high level Kodi client.  *)
(* Every coroutine is cut at its awaits; a caller is one logical flow that    *)
(* runs one operation at a time.  The JSON-RPC servers and the aiohttp        *)
(* session are external objects: the model keeps what the code can observe    *)
(* of them (the live flag of the websocket, how often each was asked to       *)
(* connect or close) and draws every remote outcome from a small set.         *)
EXTENDS Integers, Sequences, FiniteSets, TLC

\* ---------------------------------------------------------------- bounds

\* connect() and close() calls started in one run.
MaxOps == 3
\* Push ports range over 0..MaxPort; port 0 is a supplied (falsy) port.
MaxPort == 1
\* Player ids range over 0..MaxPlayerId.
MaxPlayerId == 1

\* ---------------------------------------------------------------- values

None == "None"
\* An optional number is a sequence: <<>> is None, <<n>> is the number n.
Some(n) == <<n>>
Absent == <<>>

Callers == {"a", "b"}
\* The callers of the sequential specification: one logical flow.
SeqCallers == {"a"}

\* ws_port as given to the factory: absent, or a port number.
PushPorts == {Absent} \cup { Some(p) : p \in 0..MaxPort }
\* session as given to the factory: absent, or a caller's session.
SuppliedSessions == {None, "caller_session"}

\* The text of a transport failure, as a sequence of characters.
TransportTexts ==
    { <<"4", "0", "1">>,
      <<"E", " ", "4", "0", "1", " ", "U">>,
      <<"4", "0", "3">>,
      <<"4", "0">>,
      <<"4", "0", "0", "1">>,
      <<"1", "0", "4">>,
      <<>> }

\* What an awaited remote call can raise: jsonrpc_base's TransportError with
\* its text, or its ProtocolError (a remote-side error).
RemoteErrors ==
    { [kind |-> "raise", val |-> "TransportError", msg |-> m] : m \in TransportTexts }
    \cup { [kind |-> "raise", val |-> "ProtocolError", msg |-> <<>>] }

Returned(v) == [kind |-> "return", val |-> v, msg |-> <<>>]
Raised(e) == [kind |-> "raise", val |-> e, msg |-> <<>>]
Pending == [kind |-> "pending", val |-> None, msg |-> <<>>]

\* One remote call made on a JSON-RPC server: the method, its
\* arguments in order, whether the coroutine was awaited, and its outcome.
Call(method, args, o) ==
    [method |-> method, args |-> args, awaited |-> TRUE, out |-> o]

\* A remote call whose coroutine is created and dropped without an await.
CallNotAwaited(method, args) ==
    [method |-> method, args |-> args, awaited |-> FALSE, out |-> Pending]

\* ---------------------------------------------------------------- texts

\* Texts are sequences of one-character strings, so that parsing and
\* encoding work character by character.
Digits == <<"0", "1", "2", "3", "4", "5", "6", "7", "8", "9">>

RECURSIVE py_str(_)
\* str(n) of a natural number, as an f-string formats it.
py_str(n) ==
    IF n < 10 THEN <<Digits[n + 1]>>
    ELSE py_str(n \div 10) \o <<Digits[(n % 10) + 1]>>

LowerLetters ==
    {"a", "b", "c", "d", "e", "f", "g", "h", "i", "j", "k", "l", "m", "o",
     "p", "r", "s", "t", "w", "x"}
UpperLetters == {"A", "E", "G", "I", "M"}
Letters == LowerLetters \cup UpperLetters
DigitChars == { Digits[i] : i \in 1..10 }

\* str.lower() on one character.
lower(c) ==
    CASE c = "A" -> "a" [] c = "E" -> "e" [] c = "G" -> "g"
      [] c = "I" -> "i" [] c = "M" -> "m" [] OTHER -> c

\* urllib.parse.scheme_chars
scheme_chars == Letters \cup DigitChars \cup {"+", "-", "."}

\* str.find(":") counted from 1; 0 when there is none.
find_colon(url) ==
    IF \E i \in 1..Len(url) : url[i] = ":"
    THEN CHOOSE i \in 1..Len(url) :
            url[i] = ":" /\ \A j \in 1..(i - 1) : url[j] /= ":"
    ELSE 0

\* urllib.parse.urlparse(url).scheme: the text before the first colon, in
\* lower case, when it starts with a letter and holds scheme characters only.
urlparse_scheme(url) ==
    LET i == find_colon(url)
    IN  IF i > 1 /\ url[1] \in Letters
            /\ \A j \in 1..(i - 1) : url[j] \in scheme_chars
        THEN [j \in 1..(i - 1) |-> lower(url[j])]
        ELSE <<>>

\* urllib.parse.quote_plus on one character: letters, digits and "_.-~" stay,
\* a space becomes "+", every other character its %XX escape.
quote_plus_char(c) ==
    IF c \in Letters \cup DigitChars \cup {"_", ".", "-", "~"} THEN <<c>>
    ELSE CASE c = " " -> <<"+">>
           [] c = ":" -> <<"%", "3", "A">>
           [] c = "/" -> <<"%", "2", "F">>
           [] c = "%" -> <<"%", "2", "5">>
           [] c = "+" -> <<"%", "2", "B">>

RECURSIVE quote_plus(_)
\* urllib.parse.quote_plus
quote_plus(text) ==
    IF text = <<>> THEN <<>>
    ELSE quote_plus_char(Head(text)) \o quote_plus(Tail(text))

\* The host, port and password every connection of the model is built with.
host == <<"k", "o", "d", "i">>
http_port == 8080
password == <<"p", "w">>
\* username as given to the factory: None, or a name.
Usernames == { Absent, Some(<<"x", "b", "m", "c">>) }
\* ssl as given to the factory.
SslFlags == { "True", "False" }

\* KodiConnection.__init__: the image base URL.
image_url(user, secure) ==
    LET image_auth_string ==
            IF user /= Absent THEN user[1] \o <<":">> \o password \o <<"@">>
            ELSE <<>>
        http_protocol ==
            IF secure = "True" THEN <<"h", "t", "t", "p", "s">>
            ELSE <<"h", "t", "t", "p">>
    IN  http_protocol \o <<":", "/", "/">> \o image_auth_string \o host
            \o <<":">> \o py_str(http_port) \o <<"/", "i", "m", "a", "g", "e">>

\* The thumbnail references handed to thumbnail_url: None, or a text.
Thumbnails ==
    { Absent,
      Some(<<"i", "m", "a", "g", "e", ":", "/", "/", "f", "o", "o", "%", "2", "0", "b", "a", "r", "/">>),
      Some(<<"h", "t", "t", "p", ":", "/", "/", "e", "x", "a", "m", "p", "l", "e", ".", "c", "o", "m", "/", "x", ".", "j", "p", "g">>),
      Some(<<"I", "M", "A", "G", "E", ":", "/", "/", "a", " ", "b">>),
      Some(<<"i", "m", "a", "g", "e", "s", ":", "/", "/", "a">>),
      Some(<<"i", "m", "a", "g", "e">>),
      Some(<<"i", "m", "a", "g", "e", ":">>),
      Some(<<":", "i", "m", "a", "g", "e">>),
      Some(<<>>) }

VARIABLES
    ws_port,            \* the factory's ws_port argument
    supplied_session,   \* the factory's session argument
    cls,                \* the class of the connection the factory returned
    _session,           \* KodiConnection._session
    _created_session,   \* KodiConnection._created_session
    _http_server,       \* KodiHTTPConnection._http_server
    _ws_server,         \* KodiWSConnection._ws_server
    username,           \* the factory's username argument
    ssl,                \* the factory's ssl argument
    _image_url,         \* KodiConnection._image_url
    ws_live,            \* jsonrpc_websocket.Server.connected of the ws server
    handshakes,         \* ws_connect() calls made on the ws server
    ws_closes,          \* close() calls made on the ws server
    session_closes,     \* close() calls made on the session
    kodi_server,        \* Kodi._server ("unbuilt" before Kodi.__init__)
    pc,                 \* per caller: where its coroutine is suspended
    op,                 \* per caller: the operation it runs or ran last
    arg,                \* per caller: that operation's arguments, in order
    res,                \* per caller: the outcome of that operation
    players,            \* per caller: the local variable players
    log,                \* per caller: the remote calls that operation made
    snap,               \* per caller: the connection as its operation began
    last_ev,            \* the last thing that happened to the connection
    closes_done,        \* close() calls that have returned
    connects_done,      \* connect() calls that have returned
    ops_started         \* connect() and close() calls started so far

image_vars == <<username, ssl, _image_url>>
conn_vars == <<ws_port, supplied_session, cls, _session, _created_session,
               _http_server, _ws_server, image_vars>>
ext_vars == <<ws_live, handshakes, ws_closes, session_closes>>
call_vars == <<pc, op, arg, res, players, log, snap>>
vars == <<ws_port, supplied_session, cls, _session, _created_session,
          _http_server, _ws_server, username, ssl, _image_url, ws_live, handshakes, ws_closes,
          session_closes, kodi_server, pc, op, arg, res, players, log, snap,
          last_ev, closes_done, connects_done, ops_started>>

\* ---------------------------------------------------------------- factory

get_kodi_connection_falsy(port) ==
    IF port = Absent \/ port = Some(0)
    THEN "KodiHTTPConnection" ELSE "KodiWSConnection"

\* get_kodi_connection: the class it constructs for a ws_port.
get_kodi_connection(port) ==
    IF port = Absent THEN "KodiHTTPConnection" ELSE "KodiWSConnection"

\* KodiConnection.__init__: the session it keeps and whether it created it.
KodiConnection_init_session(session) ==
    IF session = None THEN "own_session" ELSE session

KodiConnection_init_created(session) == session = None

Init ==
    /\ ws_port \in PushPorts
    /\ supplied_session \in SuppliedSessions
    /\ cls = get_kodi_connection(ws_port)
    /\ _session = KodiConnection_init_session(supplied_session)
    /\ _created_session = KodiConnection_init_created(supplied_session)
    /\ _http_server = IF cls = "KodiHTTPConnection" THEN "http_server" ELSE None
    /\ _ws_server = IF cls = "KodiWSConnection" THEN "ws_server" ELSE None
    /\ username \in Usernames
    /\ ssl \in SslFlags
    /\ _image_url = image_url(username, ssl)
    /\ ws_live = FALSE
    /\ handshakes = 0
    /\ ws_closes = 0
    /\ session_closes = 0
    /\ kodi_server = "unbuilt"
    /\ pc = [t \in Callers |-> "idle"]
    /\ op = [t \in Callers |-> "none"]
    /\ arg = [t \in Callers |-> <<>>]
    /\ res = [t \in Callers |-> Pending]
    /\ players = [t \in Callers |-> <<>>]
    /\ log = [t \in Callers |-> <<>>]
    /\ snap = [t \in Callers |->
                  [ev |-> [what |-> "init", hs |-> 0, connected |-> "False"],
                   hs |-> 0, wc |-> 0, sc |-> 0,
                   closed |-> FALSE, connected |-> "False"]]
    /\ last_ev = [what |-> "init", hs |-> 0, connected |-> "False"]
    /\ closes_done = 0
    /\ connects_done = 0
    /\ ops_started = 0

\* ---------------------------------------------------------------- queries

\* Python's truth value of a value written as "True", "False" or "None".
truthy(v) == v \notin {"None", "False"}

py_bool(b) == IF b THEN "True" ELSE "False"

connected_once_connect_returned ==
    IF cls = "KodiHTTPConnection" THEN py_bool(connects_done > 0)
    ELSE IF _ws_server = None THEN None ELSE py_bool(ws_live)

connected_cached ==
    IF cls = "KodiHTTPConnection" THEN "True"
    ELSE IF _ws_server = None THEN None ELSE py_bool(connects_done > 0)

\* KodiHTTPConnection.connected / KodiWSConnection.connected: the value of
\* `self._ws_server and self._ws_server.connected` (None once closed).
connected ==
    IF cls = "KodiHTTPConnection" THEN "True"
    ELSE IF _ws_server = None THEN None ELSE py_bool(ws_live)

\* KodiConnection.can_subscribe, overridden by KodiWSConnection.
can_subscribe ==
    IF cls = "KodiWSConnection" THEN TRUE ELSE FALSE

thumbnail_url_any_scheme(thumbnail) ==
    IF thumbnail = Absent THEN Absent
    ELSE Some(_image_url \o <<"/">> \o quote_plus(thumbnail[1]))

\* KodiConnection.thumbnail_url: None for None, the image URL for an
\* "image" scheme, and None (no return statement) otherwise. The optional
\* text is <<>> for None and <<text>> for a text.
KodiConnection_thumbnail_url(thumbnail) ==
    IF thumbnail = Absent THEN Absent
    ELSE IF urlparse_scheme(thumbnail[1]) = <<"i", "m", "a", "g", "e">>
         THEN Some(_image_url \o <<"/">> \o quote_plus(thumbnail[1]))
         ELSE Absent

server_never_cleared ==
    IF cls = "KodiHTTPConnection" THEN "http_server" ELSE "ws_server"

\* KodiHTTPConnection.server / KodiWSConnection.server
server ==
    IF cls = "KodiHTTPConnection" THEN _http_server ELSE _ws_server

\* ---------------------------------------------------------------- callers

\* What happened to the connection last: a connect() or close() that ended
\* (with the handshake count and connected as that call began), or a drop.
NoEv == [what |-> "init", hs |-> 0, connected |-> "False"]
Ev(t, what) ==
    [what |-> what, hs |-> snap'[t].hs, connected |-> snap'[t].connected]

\* A caller that is not inside an operation starts one: the bookkeeping of
\* the call (what is called, with what, and the connection as it was).
Begin(t, name, a) ==
    /\ pc[t] = "idle"
    /\ op' = [op EXCEPT ![t] = name]
    /\ arg' = [arg EXCEPT ![t] = a]

BeginConn(t, name) ==
    /\ Begin(t, name, <<>>)
    /\ ops_started < MaxOps
    /\ ops_started' = ops_started + 1
    /\ snap' = [snap EXCEPT ![t] =
                   [ev |-> last_ev, hs |-> handshakes, wc |-> ws_closes,
                    sc |-> session_closes, closed |-> closes_done > 0,
                    connected |-> connected]]

\* The operation of caller t ends with outcome r, which the caller holds
\* until it takes it.
Finish(t, r) ==
    /\ pc' = [pc EXCEPT ![t] = "done"]
    /\ res' = [res EXCEPT ![t] = r]

NoSnap ==
    [ev |-> NoEv, hs |-> 0, wc |-> 0, sc |-> 0, closed |-> FALSE,
     connected |-> "False"]

\* The caller takes the outcome of its operation and is free to call again.
Return(t) ==
    /\ pc[t] = "done"
    /\ pc' = [pc EXCEPT ![t] = "idle"]
    /\ op' = [op EXCEPT ![t] = "none"]
    /\ arg' = [arg EXCEPT ![t] = <<>>]
    /\ res' = [res EXCEPT ![t] = Pending]
    /\ players' = [players EXCEPT ![t] = <<>>]
    /\ log' = [log EXCEPT ![t] = <<>>]
    /\ snap' = [snap EXCEPT ![t] = NoSnap]
    /\ UNCHANGED <<conn_vars, ext_vars, kodi_server, last_ev, closes_done, connects_done,
                   ops_started>>

\* The operation of caller t suspends at the await named label.
Suspend(t, label) ==
    /\ pc' = [pc EXCEPT ![t] = label]
    /\ res' = [res EXCEPT ![t] = Pending]

\* ---------------------------------------------------------------- connect

\* KodiConnection.connect, which KodiHTTPConnection inherits: pass.
KodiConnection_connect(t) ==
    /\ cls = "KodiHTTPConnection"
    /\ BeginConn(t, "connect")
    /\ Finish(t, Returned(None))
    /\ last_ev' = Ev(t, "connect:return")
    /\ connects_done' = connects_done + 1
    /\ UNCHANGED <<conn_vars, ext_vars, kodi_server, players, log, closes_done>>

connect_returns_early_never == FALSE

\* KodiWSConnection.connect: `if self.connected: return`
connect_returns_early == truthy(connected)

\* KodiWSConnection.connect up to its await: returns at once when connected,
\* fails on the cleared server reference (None has no ws_connect, and an
\* AttributeError is not a TransportError), else starts the handshake.
KodiWSConnection_connect(t) ==
    /\ cls = "KodiWSConnection"
    /\ BeginConn(t, "connect")
    /\ IF connect_returns_early
       THEN /\ Finish(t, Returned(None))
            /\ last_ev' = Ev(t, "connect:return")
            /\ connects_done' = connects_done + 1
            /\ UNCHANGED handshakes
       ELSE IF _ws_server = None
       THEN /\ Finish(t, Raised("AttributeError"))
            /\ last_ev' = Ev(t, "connect:AttributeError")
            /\ UNCHANGED <<handshakes, connects_done>>
       ELSE /\ Suspend(t, "ws_connect")
            /\ handshakes' = handshakes + 1
            /\ UNCHANGED <<last_ev, connects_done>>
    /\ UNCHANGED <<conn_vars, ws_live, ws_closes, session_closes, kodi_server,
                   players, log, closes_done>>

connect_except_swallows(o) == Returned(None)

\* KodiWSConnection.connect: what it makes of the outcome of ws_connect(),
\* `except TransportError as error: raise CannotConnectError() from error`
connect_except(o) ==
    IF o.kind = "raise" /\ o.val = "TransportError"
    THEN Raised("CannotConnectError")
    ELSE o

\* What ws_connect() ends with: the websocket is open, or a TransportError.
HandshakeOutcomes ==
    { Returned(None), [kind |-> "raise", val |-> "TransportError", msg |-> <<>>] }

\* KodiWSConnection.connect after its await: ws_connect() has opened the
\* websocket, or has raised a TransportError and left it closed.
KodiWSConnection_connect_resume(t) ==
    /\ pc[t] = "ws_connect"
    /\ UNCHANGED snap
    /\ \E o \in HandshakeOutcomes :
         /\ ws_live' = (ws_live \/ o.kind = "return")
         /\ log' = [log EXCEPT ![t] = <<Call("ws_connect", <<>>, o)>>]
         /\ Finish(t, connect_except(o))
         /\ IF connect_except(o).kind = "return"
            THEN /\ last_ev' = Ev(t, "connect:return")
                 /\ connects_done' = connects_done + 1
            ELSE /\ last_ev' = Ev(t, "connect:CannotConnectError")
                 /\ UNCHANGED connects_done
    /\ UNCHANGED <<conn_vars, handshakes, ws_closes, session_closes,
                   kodi_server, op, arg, players, closes_done, ops_started>>

\* The websocket drops: jsonrpc_websocket's Server.connected turns false.
ws_drop ==
    /\ cls = "KodiWSConnection"
    /\ ws_live
    /\ ws_live' = FALSE
    /\ last_ev' = [what |-> "drop", hs |-> handshakes, connected |-> "True"]
    /\ UNCHANGED <<conn_vars, handshakes, ws_closes, session_closes,
                   kodi_server, call_vars, closes_done, connects_done,
                   ops_started>>

\* ---------------------------------------------------------------- close

close_releases_any_session == _session /= None

\* KodiConnection.close: `if self._created_session and self._session is not None`
close_releases_session == _created_session /\ _session /= None

\* KodiConnection.close up to its await: asks the session it created to
\* close, or has nothing to do and returns.
KodiConnection_close(t) ==
    IF close_releases_session
    THEN /\ session_closes' = session_closes + 1
         /\ Suspend(t, "session_close")
         /\ UNCHANGED <<closes_done, last_ev>>
    ELSE /\ Finish(t, Returned(None))
         /\ closes_done' = closes_done + 1
         /\ last_ev' = Ev(t, "close:return")
         /\ UNCHANGED session_closes

\* KodiConnection.close after its await: forgets the session.
KodiConnection_close_resume(t) ==
    /\ pc[t] = "session_close"
    /\ UNCHANGED snap
    /\ _session' = None
    /\ _created_session' = FALSE
    /\ Finish(t, Returned(None))
    /\ closes_done' = closes_done + 1
    /\ last_ev' = Ev(t, "close:return")
    /\ UNCHANGED <<image_vars, ws_port, supplied_session, cls, _http_server, _ws_server,
                   ext_vars, kodi_server, op, arg, players, log,
                   connects_done, ops_started>>

\* KodiHTTPConnection.close: clears the server, then the base close.
KodiHTTPConnection_close(t) ==
    /\ cls = "KodiHTTPConnection"
    /\ BeginConn(t, "close")
    /\ _http_server' = None
    /\ KodiConnection_close(t)
    /\ UNCHANGED <<image_vars, ws_port, supplied_session, cls, _session, _created_session,
                   _ws_server, ws_live, handshakes, ws_closes, kodi_server,
                   players, log, connects_done>>

\* KodiWSConnection.close up to its first await: `self._ws_server.close()`
\* fails on the cleared reference, else asks the websocket server to close.
KodiWSConnection_close(t) ==
    /\ cls = "KodiWSConnection"
    /\ BeginConn(t, "close")
    /\ IF _ws_server = None
       THEN /\ Finish(t, Raised("AttributeError"))
            /\ last_ev' = Ev(t, "close:AttributeError")
            /\ UNCHANGED ws_closes
       ELSE /\ Suspend(t, "ws_close")
            /\ ws_closes' = ws_closes + 1
            /\ UNCHANGED last_ev
    /\ UNCHANGED <<conn_vars, ws_live, handshakes, session_closes,
                   kodi_server, players, log, closes_done, connects_done>>

\* KodiWSConnection.close after its first await: the websocket is closed,
\* the reference is cleared, then the base close.
KodiWSConnection_close_resume(t) ==
    /\ pc[t] = "ws_close"
    /\ UNCHANGED snap
    /\ ws_live' = FALSE
    /\ _ws_server' = None
    /\ KodiConnection_close(t)
    /\ UNCHANGED <<image_vars, ws_port, supplied_session, cls, _session, _created_session,
                   _http_server, handshakes, ws_closes, kodi_server, op, arg,
                   players, log, connects_done, ops_started>>

\* ---------------------------------------------------------------- client

\* Kodi.__init__: `self._server = connection.server`
Kodi_init ==
    /\ kodi_server = "unbuilt"
    /\ kodi_server' = server
    /\ UNCHANGED <<conn_vars, ext_vars, call_vars, last_ev, closes_done, connects_done,
                   ops_started>>

\* ---------------------------------------------------------------- remote

\* The failures drawn for the calls whose failure text nobody reads.
CallErrors ==
    { e \in RemoteErrors :
        e.val = "ProtocolError" \/ e.msg \in {<<"4", "0", "1">>, <<>>} }

PlayerIds == 0..MaxPlayerId

\* The replies of Player.GetActivePlayers: no player, one, or two.
PlayerLists ==
    {<<>>}
    \cup { <<[playerid |-> p]>> : p \in PlayerIds }
    \cup { ps \in { <<[playerid |-> p], [playerid |-> q]>> :
                         p \in PlayerIds, q \in PlayerIds } :
             ps[1] /= ps[2] }

PlayersOutcomes == { Returned(ps) : ps \in PlayerLists } \cup CallErrors
PingOutcomes ==
    { Returned(r) : r \in {"pong", "Pong", "pong!", ""} } \cup RemoteErrors
CallOutcomes == { Returned("OK") } \cup CallErrors

\* Python's `pat in text` on sequences of characters.
contains(pat, text) ==
    \E i \in 1..(Len(text) + 1) :
        /\ i + Len(pat) - 1 <= Len(text)
        /\ SubSeq(text, i, i + Len(pat) - 1) = pat

\* What the client's frames leave alone.
ClientFrame ==
    UNCHANGED <<conn_vars, ext_vars, kodi_server, snap, last_ev, closes_done, connects_done,
                ops_started>>

dispatch_handle_current ==
    IF kodi_server = "unbuilt" THEN "unbuilt" ELSE server

\* `self._server` as every operation of Kodi reads it: the attribute set in
\* Kodi.__init__, not the connection's present `server`.
dispatch_handle == kodi_server

\* An attribute lookup on the captured handle when that handle is None.
NoHandle(t) ==
    /\ dispatch_handle = None
    /\ Finish(t, Raised("AttributeError"))
    /\ log' = [log EXCEPT ![t] = <<>>]
    /\ UNCHANGED players

\* `await self._server.<method>(<args>)` as the whole body of an operation:
\* the call is made and awaited, its failure propagates, its reply is dropped.
AwaitOnly(t, method, args) ==
    \/ NoHandle(t)
    \/ /\ dispatch_handle \notin {None, "unbuilt"}
       /\ \E o \in CallOutcomes :
            /\ log' = [log EXCEPT ![t] = <<Call(method, args, o)>>]
            /\ Finish(t, IF o.kind = "raise" THEN o ELSE Returned(None))
       /\ UNCHANGED players

\* ---------------------------------------------------------------- ping

\* Kodi.ping: the text looked for in `if "401" in str(error)`
ping_marker == <<"4", "0", "1">>

ping_result_equal(o) ==
    IF o.kind = "return" THEN Returned(py_bool(o.val = "pong"))
    ELSE IF o.val = "TransportError"
         THEN IF o.msg = ping_marker
              THEN Raised("InvalidAuthError")
              ELSE Raised("CannotConnectError")
         ELSE o

\* Kodi.ping: what it makes of the outcome of JSONRPC.Ping.
ping_result(o) ==
    IF o.kind = "return" THEN Returned(py_bool(o.val = "pong"))
    ELSE IF o.val = "TransportError"
         THEN IF contains(ping_marker, o.msg)
              THEN Raised("InvalidAuthError")
              ELSE Raised("CannotConnectError")
         ELSE o

\* Kodi.ping
ping(t) ==
    /\ Begin(t, "ping", <<>>)
    /\ \/ NoHandle(t)
       \/ /\ dispatch_handle \notin {None, "unbuilt"}
          /\ \E o \in PingOutcomes :
               /\ log' = [log EXCEPT ![t] = <<Call("JSONRPC.Ping", <<>>, o)>>]
               /\ Finish(t, ping_result(o))
          /\ UNCHANGED players
    /\ ClientFrame

\* ---------------------------------------------------------------- volume

\* Kodi.volume_up
volume_up(t) ==
    /\ Begin(t, "volume_up", <<>>)
    /\ AwaitOnly(t, "Input.ExecuteAction", <<"volumeup">>)
    /\ ClientFrame

\* Kodi.volume_down
volume_down(t) ==
    /\ Begin(t, "volume_down", <<>>)
    /\ AwaitOnly(t, "Input.ExecuteAction", <<"volumedown">>)
    /\ ClientFrame

\* Kodi.set_volume_level
set_volume_level(t) ==
    \E volume \in {0, 100} :
        /\ Begin(t, "set_volume_level", <<volume>>)
        /\ AwaitOnly(t, "Application.SetVolume", <<volume>>)
        /\ ClientFrame

\* Kodi.mute
mute(t) ==
    \E m \in BOOLEAN :
        /\ Begin(t, "mute", <<m>>)
        /\ AwaitOnly(t, "Application.SetMute", <<m>>)
        /\ ClientFrame

\* ---------------------------------------------------------------- players

if_players_always(ps) == TRUE

\* `if players:` a list is true when it is not empty.
if_players(ps) == ps /= <<>>

fetch_players_assumes_player(t, label) ==
    \/ NoHandle(t)
    \/ /\ dispatch_handle \notin {None, "unbuilt"}
       /\ players' = [players EXCEPT ![t] = <<[playerid |-> 0]>>]
       /\ log' = [log EXCEPT ![t] = <<>>]
       /\ Suspend(t, label)

\* `players = await self.get_players()` followed by `if players:`, the
\* opening of every operation aimed at a player.  A failure of the call
\* propagates; with players the operation goes on at label, without it ends.
fetch_players(t, label) ==
    \/ NoHandle(t)
    \/ /\ dispatch_handle \notin {None, "unbuilt"}
       /\ \E o \in PlayersOutcomes :
            /\ log' = [log EXCEPT ![t] =
                          <<Call("Player.GetActivePlayers", <<>>, o)>>]
            /\ IF o.kind = "raise"
               THEN Finish(t, o) /\ UNCHANGED players
               ELSE /\ players' = [players EXCEPT ![t] = o.val]
                    /\ IF if_players(o.val)
                       THEN Suspend(t, label)
                       ELSE Finish(t, Returned(None))

\* players[0]["playerid"]
first_playerid(t) == players[t][1].playerid

\* `await self._server.Player.<method>(<args>)` as the last statement of an
\* operation aimed at a player; players[0] of an empty list is an IndexError.
player_call(t, label, method, args) ==
    /\ pc[t] = label
    /\ IF players[t] = <<>>
       THEN Finish(t, Raised("IndexError")) /\ UNCHANGED log
       ELSE \E o \in CallOutcomes :
              /\ log' = [log EXCEPT ![t] = Append(@, Call(method, args, o))]
              /\ Finish(t, IF o.kind = "raise" THEN o ELSE Returned(None))
    /\ UNCHANGED <<op, arg, players>>
    /\ ClientFrame

\* Kodi._set_play_state up to its second call.
_set_play_state(t, name, state) ==
    /\ Begin(t, name, <<state>>)
    /\ fetch_players(t, "PlayPause")
    /\ ClientFrame

\* Kodi._set_play_state: Player.PlayPause(players[0]["playerid"], state)
_set_play_state_call(t) ==
    player_call(t, "PlayPause", "Player.PlayPause",
                <<first_playerid(t), arg[t][1]>>)

\* Kodi.play_pause
play_pause(t) == _set_play_state(t, "play_pause", "toggle")

\* Kodi.play
play(t) == _set_play_state(t, "play", "True")

\* Kodi.pause
pause(t) == _set_play_state(t, "pause", "False")

\* Kodi.stop up to its second call.
stop(t) ==
    /\ Begin(t, "stop", <<>>)
    /\ fetch_players(t, "Stop")
    /\ ClientFrame

\* Kodi.stop: Player.Stop(players[0]["playerid"])
stop_call(t) ==
    player_call(t, "Stop", "Player.Stop", <<first_playerid(t)>>)

goto_first_never_seeks(direction) == "GoTo"

goto_first_always_seeks(direction) == "Seek"

\* Kodi._goto: `if direction == "previous":` the seek comes first.
goto_first(direction) ==
    IF direction = "previous" THEN "Seek" ELSE "GoTo"

\* Kodi._goto up to its second call.
_goto(t, name, direction) ==
    /\ Begin(t, name, <<>>)
    /\ fetch_players(t, goto_first(direction))
    /\ ClientFrame

\* Kodi.next_track
next_track(t) == _goto(t, "next_track", "next")

\* Kodi.previous_track
previous_track(t) == _goto(t, "previous_track", "previous")

\* The direction a suspended _goto was called with.
goto_direction(name) ==
    IF name = "previous_track" THEN "previous" ELSE "next"

\* Kodi._goto: Player.Seek(players[0]["playerid"], 0); GoTo follows only
\* when the awaited seek returned.
_goto_seek(t) ==
    /\ pc[t] = "Seek"
    /\ IF players[t] = <<>>
       THEN Finish(t, Raised("IndexError")) /\ UNCHANGED log
       ELSE \E o \in CallOutcomes :
              /\ log' = [log EXCEPT ![t] =
                            Append(@, Call("Player.Seek",
                                           <<first_playerid(t), 0>>, o))]
              /\ IF o.kind = "raise"
                 THEN Finish(t, o)
                 ELSE Suspend(t, "GoTo")
    /\ UNCHANGED <<op, arg, players>>
    /\ ClientFrame

\* Kodi._goto: Player.GoTo(players[0]["playerid"], direction)
_goto_goto(t) ==
    player_call(t, "GoTo", "Player.GoTo",
                <<first_playerid(t), goto_direction(op[t])>>)

\* The positions media_seek is called with, written in milliseconds: the
\* float handed over is the double nearest to position / 1000.
SeekPositions == {0, 250, 1001, 1002, 3725250}

RECURSIVE Log2Floor(_)
\* The exponent of the leading bit of a positive integer.
Log2Floor(n) == IF n < 2 THEN 0 ELSE 1 + Log2Floor(n \div 2)

RECURSIVE Pow2(_)
Pow2(n) == IF n = 0 THEN 1 ELSE 2 * Pow2(n - 1)

RECURSIVE FractionShift(_)
\* The number of doublings that take a fraction of m thousandths to 1 or more.
FractionShift(m) == IF m >= 1000 THEN 0 ELSE 1 + FractionShift(2 * m)

RECURSIVE DoubledRemainder(_, _)
\* (m * 2^q) mod 1000: what m / 1000 leaves beyond its first q binary places.
DoubledRemainder(m, q) ==
    IF q = 0 THEN m % 1000 ELSE DoubledRemainder((2 * m) % 1000, q - 1)

\* int((position % 1) * 1000) for the double nearest to S + M / 1000
\* (0 < M < 1000). The double keeps 52 - k binary places, 2^k being its
\* leading bit; `position % 1` is exact; when the double lies above
\* S + M / 1000 the product is at least M and truncates to M; when it lies
\* below by r / 2^(52 - k) thousandths, the product rounds back to M only if
\* that is within half the spacing of the doubles just below M, and
\* truncates to M - 1 otherwise.
float_milliseconds(S, M) ==
    LET k == IF S >= 1 THEN Log2Floor(S) ELSE 0 - FractionShift(M)
        r == DoubledRemainder(M, 52 - k)
        e == IF M = 1 THEN 0 - 1
             ELSE IF Pow2(Log2Floor(M)) = M THEN Log2Floor(M) - 1
             ELSE Log2Floor(M)
        x == e - 1 - k
    IN  IF r = 0 \/ r >= 500 THEN M
        ELSE IF x >= 0 /\ r <= Pow2(x) THEN M
        ELSE M - 1

\* Kodi.media_seek: the time object built from position. int(position),
\* `% 60` and `/= 60` are exact on the whole seconds (the quotients are
\* never within a rounding error of an integer they do not equal).
media_seek_time(position) ==
    LET whole == position \div 1000
        M == position % 1000
    IN  [milliseconds |-> IF M = 0 THEN 0 ELSE float_milliseconds(whole, M),
         seconds |-> whole % 60,
         minutes |-> (whole \div 60) % 60,
         hours |-> (whole \div 60) \div 60]

\* Kodi.media_seek up to its second call.
media_seek(t) ==
    \E position \in SeekPositions :
        /\ Begin(t, "media_seek", <<position>>)
        /\ fetch_players(t, "SeekTo")
        /\ ClientFrame

\* Kodi.media_seek: Player.Seek(players[0]["playerid"], time)
media_seek_call(t) ==
    player_call(t, "SeekTo", "Player.Seek",
                <<first_playerid(t), media_seek_time(arg[t][1])>>)

\* Kodi.set_shuffle up to its second call.
set_shuffle(t) ==
    \E shuffle \in {"True", "False"} :
        /\ Begin(t, "set_shuffle", <<shuffle>>)
        /\ fetch_players(t, "SetShuffle")
        /\ ClientFrame

\* Kodi.set_shuffle: Player.SetShuffle({"playerid": ..., "shuffle": ...})
set_shuffle_call(t) ==
    player_call(t, "SetShuffle", "Player.SetShuffle",
                <<[playerid |-> first_playerid(t), shuffle |-> arg[t][1]]>>)

\* ---------------------------------------------------------------- playlist

ItemIds == {1, 2}

\* Kodi._add_item_to_playlist: builds the parameters and calls Playlist.Add
\* without awaiting the coroutine the call returns.
_add_item_to_playlist(t, name, id, item) ==
    /\ Begin(t, name, <<id>>)
    /\ \/ NoHandle(t)
       \/ /\ dispatch_handle \notin {None, "unbuilt"}
          /\ log' = [log EXCEPT ![t] =
                        <<CallNotAwaited("Playlist.Add",
                                         <<[playlistid |-> 0, item |-> item]>>)>>]
          /\ Finish(t, Returned(None))
          /\ UNCHANGED players
    /\ ClientFrame

\* Kodi.add_song_to_playlist
add_song_to_playlist(t) ==
    \E song_id \in ItemIds :
        _add_item_to_playlist(t, "add_song_to_playlist", song_id,
                              [songid |-> song_id])

\* Kodi.add_album_to_playlist
add_album_to_playlist(t) ==
    \E album_id \in ItemIds :
        _add_item_to_playlist(t, "add_album_to_playlist", album_id,
                              [albumid |-> album_id])

\* Kodi.clear_playlist
clear_playlist(t) ==
    /\ Begin(t, "clear_playlist", <<>>)
    /\ AwaitOnly(t, "Playlist.Clear", <<[playlistid |-> 0]>>)
    /\ ClientFrame

\* ---------------------------------------------------------------- queries

call_result_reclassified(o) ==
    IF o.kind = "raise" /\ o.val = "TransportError"
    THEN Raised("CannotConnectError") ELSE o

\* `return await self._server.<method>(...)`: the reply is the result, a
\* failure of the call leaves the operation as it was raised.
call_result(o) == o

QueryOutcomes == { Returned("reply") } \cup CallErrors
ItemOutcomes == { Returned([item |-> "song"]) } \cup CallErrors

\* `return await self._server.<method>(<args>)` as the whole body.
AwaitReturn(t, method, args, outcomes) ==
    \/ NoHandle(t)
    \/ /\ dispatch_handle \notin {None, "unbuilt"}
       /\ \E o \in outcomes :
            /\ log' = [log EXCEPT ![t] = <<Call(method, args, o)>>]
            /\ Finish(t, call_result(o))
       /\ UNCHANGED players

PropertyLists == { <<"volume", "muted">> }

\* The player dictionaries handed to the property queries: an entry of the
\* active-player list, or a dictionary without the "playerid" key.
PlayerDicts ==
    { [playerid |-> Some(p)] : p \in PlayerIds } \cup { [playerid |-> Absent] }

\* Kodi.get_application_properties
get_application_properties(t) ==
    /\ \E props \in PropertyLists :
         /\ Begin(t, "get_application_properties", <<props>>)
         /\ AwaitReturn(t, "Application.GetProperties", <<props>>,
                        QueryOutcomes)
    /\ ClientFrame

\* `self._server.Player.<method>(player["playerid"], properties)`: the
\* attribute chain on the handle is evaluated before the subscript.
player_query(t, name, method, outcomes) ==
    /\ \E player \in PlayerDicts, props \in PropertyLists :
         /\ Begin(t, name, <<player, props>>)
         /\ \/ NoHandle(t)
            \/ /\ dispatch_handle \notin {None, "unbuilt"}
               /\ player.playerid = Absent
               /\ Finish(t, Raised("KeyError"))
               /\ log' = [log EXCEPT ![t] = <<>>]
               /\ UNCHANGED players
            \/ /\ dispatch_handle \notin {None, "unbuilt"}
               /\ player.playerid /= Absent
               /\ \E o \in outcomes :
                    /\ log' = [log EXCEPT ![t] =
                                  <<Call(method, <<player.playerid[1], props>>, o)>>]
                    /\ Finish(t, IF o.kind = "return" /\ method = "Player.GetItem"
                                 THEN Returned(o.val.item)
                                 ELSE call_result(o))
               /\ UNCHANGED players
    /\ ClientFrame

\* Kodi.get_player_properties
get_player_properties(t) ==
    player_query(t, "get_player_properties", "Player.GetProperties",
                 QueryOutcomes)

\* Kodi.get_playing_item_properties: the "item" entry of the reply
get_playing_item_properties(t) ==
    player_query(t, "get_playing_item_properties", "Player.GetItem",
                 ItemOutcomes)

\* Kodi.get_artists
get_artists(t) ==
    /\ Begin(t, "get_artists", <<>>)
    /\ AwaitReturn(t, "AudioLibrary.GetArtists", <<>>, QueryOutcomes)
    /\ ClientFrame

\* The artist_id arguments, as their text: None, decimal texts, another text.
ArtistIds == { None, "1", "2", "abba" }

\* int(artist_id) for the texts above; "ValueError" where int() raises.
py_int(a) ==
    IF a = "1" THEN Some(1) ELSE IF a = "2" THEN Some(2) ELSE Absent

\* Kodi.get_albums
get_albums(t) ==
    /\ \E a \in ArtistIds :
         /\ Begin(t, "get_albums", <<a>>)
         /\ AwaitReturn(t, "AudioLibrary.GetAlbums",
                        IF a = None THEN <<>>
                        ELSE <<[filter |-> [artistid |-> a]]>>,
                        QueryOutcomes)
    /\ ClientFrame

\* Kodi.get_songs
get_songs(t) ==
    /\ \E a \in ArtistIds :
         /\ Begin(t, "get_songs", <<a>>)
         /\ IF a /= None /\ py_int(a) = Absent
               /\ dispatch_handle \notin {None, "unbuilt"}
            THEN /\ Finish(t, Raised("ValueError"))
                 /\ log' = [log EXCEPT ![t] = <<>>]
                 /\ UNCHANGED players
            ELSE AwaitReturn(t, "AudioLibrary.GetSongs",
                             IF a = None THEN <<>>
                             ELSE <<[filter |-> [artistid |-> py_int(a)[1]]]>>,
                             QueryOutcomes)
    /\ ClientFrame

\* Kodi.get_players
get_players(t) ==
    /\ Begin(t, "get_players", <<>>)
    /\ AwaitReturn(t, "Player.GetActivePlayers", <<>>, PlayersOutcomes)
    /\ ClientFrame

\* The method names and keyword arguments handed to call_method.
MethodNames == { "Application.Quit", "JSONRPC.Ping" }
KeywordArgs == { <<>>, <<[key |-> "properties", value |-> "volume"]>> }

\* Kodi.call_method
call_method(t) ==
    /\ \E method \in MethodNames, kwargs \in KeywordArgs :
         /\ Begin(t, "call_method", <<method, kwargs>>)
         /\ AwaitReturn(t, method, kwargs, QueryOutcomes)
    /\ ClientFrame

\* ---------------------------------------------------------------- playback

\* Kodi._play_item: Player.Open({"item": item})
_play_item(t, name, key, id) ==
    /\ Begin(t, name, <<id>>)
    /\ AwaitOnly(t, "Player.Open", <<[item |-> [key |-> key, value |-> id]]>>)
    /\ ClientFrame

\* Kodi.play_channel
play_channel(t) == \E id \in ItemIds : _play_item(t, "play_channel", "channelid", id)

\* Kodi.play_playlist
play_playlist(t) == \E id \in ItemIds : _play_item(t, "play_playlist", "playlistid", id)

Paths == { "/music", "/music/a.mp3" }

\* Kodi.play_directory
play_directory(t) ==
    \E d \in Paths : _play_item(t, "play_directory", "directory", d)

\* Kodi.play_file
play_file(t) == \E f \in Paths : _play_item(t, "play_file", "file", f)

\* Kodi.send_notification, with its default icon and displaytime
send_notification(t) ==
    /\ Begin(t, "send_notification", <<"title", "message">>)
    /\ AwaitOnly(t, "GUI.ShowNotification", <<"title", "message", "info", "10000">>)
    /\ ClientFrame

\* Kodi.thumbnail_url: no remote call; the connection's answer is returned.
thumbnail_url(t) ==
    /\ kodi_server /= "unbuilt"
    /\ \E thumbnail \in Thumbnails :
         /\ Begin(t, "thumbnail_url", <<thumbnail>>)
         /\ Finish(t, Returned(KodiConnection_thumbnail_url(thumbnail)))
    /\ log' = [log EXCEPT ![t] = <<>>]
    /\ UNCHANGED players
    /\ ClientFrame

\* ---------------------------------------------------------------- runs

Connect(t) ==
    \/ KodiConnection_connect(t)
    \/ KodiWSConnection_connect(t)
    \/ KodiWSConnection_connect_resume(t)

Close(t) ==
    \/ KodiHTTPConnection_close(t)
    \/ KodiWSConnection_close(t)
    \/ KodiWSConnection_close_resume(t)
    \/ KodiConnection_close_resume(t)

Control(t) ==
    \/ volume_up(t)
    \/ volume_down(t)
    \/ set_volume_level(t)
    \/ mute(t)
    \/ play_pause(t)
    \/ play(t)
    \/ pause(t)
    \/ _set_play_state_call(t)
    \/ stop(t)
    \/ stop_call(t)
    \/ next_track(t)
    \/ previous_track(t)
    \/ _goto_seek(t)
    \/ _goto_goto(t)
    \/ media_seek(t)
    \/ media_seek_call(t)
    \/ set_shuffle(t)
    \/ set_shuffle_call(t)

Playlist(t) ==
    \/ add_song_to_playlist(t)
    \/ add_album_to_playlist(t)
    \/ clear_playlist(t)

Query(t) ==
    \/ get_application_properties(t)
    \/ get_player_properties(t)
    \/ get_playing_item_properties(t)
    \/ get_artists(t)
    \/ get_albums(t)
    \/ get_songs(t)
    \/ get_players(t)
    \/ call_method(t)

Playback(t) ==
    \/ play_channel(t)
    \/ play_playlist(t)
    \/ play_directory(t)
    \/ play_file(t)
    \/ send_notification(t)

\* One logical flow: a caller awaits each operation before the next.
Next ==
    \/ \E t \in SeqCallers :
         \/ Connect(t) \/ Close(t) \/ ping(t) \/ Control(t) \/ Playlist(t)
         \/ Query(t) \/ Playback(t) \/ thumbnail_url(t)
         \/ Return(t)
    \/ Kodi_init
    \/ ws_drop

Spec == Init /\ [][Next]_vars

\* Overlapping connect() and close() calls: each caller is a task of its
\* own, and the tasks interleave at the awaits of the connection's methods.
ConcNext ==
    \/ \E t \in Callers : Connect(t) \/ Close(t) \/ Return(t)
    \/ ws_drop

ConcSpec == Init /\ [][ConcNext]_vars

\* ---------------------------------------------------------------- claims

IsWS == cls = "KodiWSConnection"
IsHTTP == cls = "KodiHTTPConnection"

\* Caller t holds the outcome of an operation called name.
Ended(t, name) == pc[t] = "done" /\ op[t] = name

\* C1: once a close() has returned, a further close() on the same
\* connection (either variant, own or supplied session) returns without an
\* error and asks neither the transport nor the session to close again.
C1_RepeatedCloseIsNoop ==
    \A t \in Callers :
        (Ended(t, "close") /\ snap[t].closed) =>
            /\ res[t] = Returned(None)
            /\ ws_closes = snap[t].wc
            /\ session_closes = snap[t].sc

\* C2: over any sequence of connect() and close() calls a supplied session
\* is never asked to close, and a session the connection created is asked
\* to close exactly once, by the first close() that returns.
C2_SessionOwnership ==
    /\ supplied_session /= None => session_closes = 0
    /\ supplied_session = None =>
         /\ session_closes <= 1
         /\ closes_done >= 1 => session_closes = 1
         /\ (session_closes = 1 /\ closes_done = 0) =>
              \E t \in Callers : pc[t] = "session_close" /\ ~snap[t].closed

C2_Witness ==
    /\ supplied_session = None
    /\ session_closes = 1
    /\ \E t \in Callers : Ended(t, "close") /\ snap[t].closed

\* C3: a WebSocket connection is not connected before its first connect()
\* that returns; after a connect() that returned it is connected while the
\* websocket stays live (no drop, no close() since); a connect() called while
\* connected returns with no handshake, so two connect() calls in a row make
\* exactly one handshake.
C3_ConnectOnce ==
    IsWS =>
        /\ connects_done = 0 => ~truthy(connected)
        /\ (last_ev.what = "connect:return"
              /\ \A t \in Callers : op[t] /= "close") => connected = "True"
        /\ \A t \in Callers :
             /\ (Ended(t, "connect") /\ truthy(snap[t].connected)) =>
                    res[t] = Returned(None) /\ handshakes = snap[t].hs
             /\ (Ended(t, "connect") /\ snap[t].ev.what = "connect:return"
                   /\ ~truthy(snap[t].ev.connected)) =>
                    /\ res[t] = Returned(None)
                    /\ handshakes = snap[t].ev.hs + 1

C3_Witness ==
    /\ IsWS
    /\ \E t \in Callers :
         /\ Ended(t, "connect")
         /\ snap[t].ev.what = "connect:return"
         /\ ~truthy(snap[t].ev.connected)
         /\ handshakes = 1

\* C4: when the handshake of a WebSocket connect() fails with a transport
\* error, that connect() has made one handshake attempt, fails with
\* CannotConnectError and leaves the connection not connected; the next
\* connect() makes a fresh handshake attempt.
C4_FailedHandshake ==
    \A t \in Callers :
        /\ (Ended(t, "connect") /\ log[t] /= <<>>
              /\ log[t][1].out.kind = "raise") =>
               /\ res[t] = Raised("CannotConnectError")
               /\ handshakes = snap[t].hs + 1
               /\ ~truthy(connected)
        /\ (op[t] = "connect" /\ pc[t] \in {"ws_connect", "done"}
              /\ snap[t].ev.what = "connect:CannotConnectError") =>
               handshakes = snap[t].hs + 1

C4_Witness ==
    \E t \in Callers :
        /\ Ended(t, "connect")
        /\ snap[t].ev.what = "connect:CannotConnectError"
        /\ res[t] = Raised("CannotConnectError")
        /\ handshakes = 2

\* The text of a failure carries the authorization marker: the characters
\* 4, 0, 1 next to each other.
HasAuthMarker(text) ==
    \E i \in 1..Len(text) :
        /\ i + 2 <= Len(text)
        /\ text[i] = "4" /\ text[i + 1] = "0" /\ text[i + 2] = "1"

\* C5: ping() returns true iff the reply is the literal "pong" and false
\* for any other reply; a transport failure whose text carries "401" makes
\* it fail with InvalidAuthError, any other transport failure with
\* CannotConnectError.
C5_PingOutcome ==
    \A t \in Callers :
        (Ended(t, "ping") /\ log[t] /= <<>>) =>
            LET o == log[t][1].out IN
            /\ o.kind = "return" =>
                 /\ res[t].kind = "return"
                 /\ res[t].val = "True" <=> o.val = "pong"
                 /\ res[t].val = "False" <=> o.val /= "pong"
            /\ (o.kind = "raise" /\ o.val = "TransportError") =>
                 res[t] = IF HasAuthMarker(o.msg)
                          THEN Raised("InvalidAuthError")
                          ELSE Raised("CannotConnectError")

C5_Witness ==
    \E t \in Callers :
        /\ Ended(t, "ping")
        /\ res[t] = Raised("InvalidAuthError")
        /\ Len(log[t][1].out.msg) > 3

VolumeOps == {"volume_up", "volume_down", "set_volume_level", "mute"}
PlayerOps ==
    {"play", "pause", "play_pause", "stop", "next_track", "previous_track",
     "media_seek", "set_shuffle"}
ControlOps == VolumeOps \cup PlayerOps

\* The remote calls that act on a player.
PlayerMutators ==
    {"Player.PlayPause", "Player.Stop", "Player.Seek", "Player.GoTo",
     "Player.SetShuffle"}

\* The operation of caller t has made a remote call.
Called(t) == log[t] /= <<>>

\* The first remote call of caller t was Player.GetActivePlayers.
FetchedFirst(t) == log[t][1].method = "Player.GetActivePlayers"

\* ... and it returned the empty list.
FetchedNone(t) ==
    /\ FetchedFirst(t)
    /\ log[t][1].out.kind = "return"
    /\ log[t][1].out.val = <<>>

\* ... and it returned a list with a player in it.
FetchedSome(t) ==
    /\ FetchedFirst(t)
    /\ log[t][1].out.kind = "return"
    /\ log[t][1].out.val /= <<>>

\* The operations in ops fetch the active players before anything else,
\* and with none they make no further call and return.
FetchFirst(ops) ==
    \A t \in Callers :
        op[t] \in ops =>
            /\ (pc[t] = "done" /\ kodi_server /= None) => Called(t)
            /\ Called(t) => FetchedFirst(t)
            /\ (pc[t] = "done" /\ Called(t) /\ FetchedNone(t)) =>
                   Len(log[t]) = 1 /\ res[t] = Returned(None)

\* C6 as stated: every control operation, the four volume operations
\* included, issues Player.GetActivePlayers as its first remote call, and
\* with an empty list issues no further call and completes without error.
C6_EveryControlFetchesPlayers == FetchFirst(ControlOps)

\* The one call a volume operation makes.
VolumeMethod(name) ==
    CASE name \in {"volume_up", "volume_down"} -> "Input.ExecuteAction"
      [] name = "set_volume_level" -> "Application.SetVolume"
      [] name = "mute" -> "Application.SetMute"

\* C6, amended: the operations aimed at a player (play, pause, play_pause,
\* stop, next_track, previous_track, media_seek, set_shuffle) issue
\* Player.GetActivePlayers as their first remote call, and with an empty
\* list issue no further call and complete without error; volume_up,
\* volume_down, set_volume_level and mute fetch no player list: each issues
\* its one call and nothing else.
C6_PlayerOpsFetchPlayers ==
    /\ FetchFirst(PlayerOps)
    /\ \A t \in Callers :
         (pc[t] = "done" /\ op[t] \in VolumeOps /\ kodi_server /= None) =>
             /\ Len(log[t]) = 1
             /\ log[t][1].method = VolumeMethod(op[t])
             /\ res[t] = IF log[t][1].out.kind = "raise"
                         THEN log[t][1].out ELSE Returned(None)

C6_Witness ==
    \E t \in Callers :
        /\ Ended(t, "set_shuffle") /\ Called(t) /\ FetchedNone(t)
        /\ res[t] = Returned(None)

\* C7: when Player.GetActivePlayers returns an empty list, play, pause,
\* play_pause, stop, next_track, previous_track, media_seek and set_shuffle
\* complete without error and issue none of Player.PlayPause, Player.Stop,
\* Player.Seek, Player.GoTo, Player.SetShuffle.
C7_NoPlayerNoCommand ==
    \A t \in Callers :
        (op[t] \in PlayerOps /\ Called(t) /\ FetchedNone(t)) =>
            /\ pc[t] = "done"
            /\ res[t].kind = "return"
            /\ \A i \in 1..Len(log[t]) : log[t][i].method \notin PlayerMutators

C7_Witness ==
    \E t \in Callers :
        /\ Ended(t, "previous_track") /\ Called(t) /\ FetchedNone(t)
        /\ res[t].kind = "return"

\* C8: previous_track with an active player issues Player.Seek to position 0
\* on the first listed player and Player.GoTo "previous" on that player only
\* once the seek has returned (a failed seek propagates and no GoTo
\* follows); next_track issues Player.GoTo "next" with no seek before it.
C8_PreviousSeeksFirst ==
    \A t \in Callers :
        (op[t] \in {"previous_track", "next_track"} /\ Called(t)
           /\ FetchedSome(t)) =>
            LET who == log[t][1].out.val[1].playerid
                n == Len(log[t])
            IN  IF op[t] = "previous_track"
                THEN /\ pc[t] = "done" => n >= 2
                     /\ n >= 2 =>
                          /\ log[t][2].method = "Player.Seek"
                          /\ log[t][2].args = <<who, 0>>
                     /\ n >= 3 =>
                          /\ log[t][2].out.kind = "return"
                          /\ log[t][3].method = "Player.GoTo"
                          /\ log[t][3].args = <<who, "previous">>
                     /\ n <= 3
                     /\ (pc[t] = "done" /\ n >= 2
                           /\ log[t][2].out.kind = "raise") =>
                          n = 2 /\ res[t] = log[t][2].out
                     /\ (pc[t] = "done" /\ n >= 2
                           /\ log[t][2].out.kind = "return") =>
                          /\ n = 3
                          /\ res[t] = IF log[t][3].out.kind = "raise"
                                      THEN log[t][3].out ELSE Returned(None)
                ELSE /\ pc[t] = "done" => n = 2
                     /\ n >= 2 =>
                          /\ log[t][2].method = "Player.GoTo"
                          /\ log[t][2].args = <<who, "next">>
                     /\ n <= 2

C8_Witness ==
    \E t \in Callers :
        /\ Ended(t, "previous_track") /\ Len(log[t]) = 3
        /\ Len(log[t][1].out.val) = 2
        /\ log[t][3].args = <<1, "previous">>
        /\ res[t] = Returned(None)

\* The item an add operation tags its argument with.
AddItem(name, id) ==
    IF name = "add_song_to_playlist" THEN [songid |-> id] ELSE [albumid |-> id]

\* C9: add_song_to_playlist and add_album_to_playlist forward to
\* Playlist.Add with playlist id 0 and the tagged item, do not complete
\* before that call has completed, and propagate its failure.
C9_AddAwaitsPlaylistAdd ==
    \A t \in Callers :
        (pc[t] = "done" /\ Called(t)
           /\ op[t] \in {"add_song_to_playlist", "add_album_to_playlist"}) =>
            /\ Len(log[t]) = 1
            /\ log[t][1].method = "Playlist.Add"
            /\ log[t][1].args =
                 <<[playlistid |-> 0, item |-> AddItem(op[t], arg[t][1])]>>
            /\ log[t][1].awaited
            /\ log[t][1].out.kind /= "pending"
            /\ log[t][1].out.kind = "raise" => res[t] = log[t][1].out

\* C10: the factory returns the HTTP connection exactly when ws_port is
\* None and the WebSocket connection for every ws_port that is supplied;
\* can_subscribe is false for HTTP and true for WebSocket in every state.
C10_Factory ==
    /\ ws_port = Absent => IsHTTP /\ can_subscribe = FALSE
    /\ ws_port /= Absent => IsWS /\ can_subscribe = TRUE

C10_Witness ==
    /\ ws_port = Some(0)
    /\ can_subscribe
    /\ last_ev.what = "connect:CannotConnectError"

\* C11: an HTTP connection is connected from construction on, before any
\* connect(); its connect() always returns, makes no handshake and changes
\* nothing of the connection.
C11_HTTPConnectedFromStart ==
    /\ [](IsHTTP =>
            /\ connected = "True"
            /\ handshakes = 0
            /\ \A t \in Callers :
                 Ended(t, "connect") => res[t] = Returned(None))
    /\ [][(IsHTTP /\ \E t \in Callers : pc[t] = "idle" /\ op'[t] = "connect")
            => UNCHANGED <<conn_vars, ext_vars>>]_vars

C11_Witness ==
    /\ IsHTTP
    /\ connected = "True"
    /\ \E t \in Callers :
         Ended(t, "connect") /\ snap[t].ev.what = "init" /\ closes_done = 0

\* C12: connected of a WebSocket connection is read from the websocket at
\* every query: it is true exactly while the websocket is live, so after a
\* drop that follows a connect() that returned it is false, and the next
\* connect() makes a new handshake.
C12_ConnectedIsLive ==
    IsWS =>
        /\ truthy(connected) <=> ws_live
        /\ last_ev.what = "drop" => ~truthy(connected)
        /\ \A t \in Callers :
             (op[t] = "connect" /\ pc[t] \in {"ws_connect", "done"}
                /\ snap[t].ev.what = "drop") =>
                 /\ handshakes = snap[t].hs + 1
                 /\ snap[t].hs >= 1

C12_Witness ==
    /\ IsWS
    /\ \E t \in Callers :
         /\ Ended(t, "connect") /\ snap[t].ev.what = "drop"
         /\ res[t] = Returned(None)
         /\ handshakes = 2
         /\ connected = "True"

\* C13: closed is final: once a close() has returned, no connect() makes a
\* handshake, a WebSocket connection is never connected again, and server
\* returns no dispatch handle.
C13_ClosedIsTerminal ==
    closes_done >= 1 =>
        /\ server = None
        /\ IsWS => ~truthy(connected) /\ ~ws_live
        /\ \A t \in Callers :
             (op[t] = "connect" /\ snap[t].closed) =>
                 /\ pc[t] = "done"
                 /\ handshakes = snap[t].hs
                 /\ IsWS => res[t] = Raised("AttributeError")

C13_Witness ==
    /\ IsWS
    /\ closes_done >= 1
    /\ connects_done >= 1
    /\ \E t \in Callers : Ended(t, "connect") /\ snap[t].closed

\* C18: the handle a client dispatches through is the value the
\* connection's server had when the client was built; it never changes, and
\* after the connection is closed every operation still dispatches through
\* it: a client built on an open connection keeps calling, a client built on
\* a closed one keeps failing on its None handle.
C18_HandleCapturedOnce ==
    /\ [][kodi_server /= "unbuilt" => kodi_server' = kodi_server]_vars
    /\ [](\A t \in Callers :
            (pc[t] = "done" /\ op[t] \in {"ping"} \cup ControlOps) =>
                /\ kodi_server \in {"http_server", "ws_server"} => Called(t)
                /\ kodi_server = None =>
                     /\ ~Called(t)
                     /\ res[t] = Raised("AttributeError"))
    /\ [](kodi_server \in {"http_server", "ws_server"} =>
            kodi_server = (IF IsHTTP THEN "http_server" ELSE "ws_server"))

C18_Witness ==
    /\ closes_done >= 1
    /\ server = None
    /\ kodi_server = "ws_server"
    /\ \E t \in Callers :
         /\ Ended(t, "ping")
         /\ Called(t)
         /\ log[t][1].method = "JSONRPC.Ping"

QueryOps ==
    {"get_application_properties", "get_player_properties",
     "get_playing_item_properties", "get_artists", "get_albums", "get_songs",
     "get_players", "call_method"}
PlaybackOps ==
    {"play_channel", "play_playlist", "play_directory", "play_file",
     "send_notification"}
PlaylistOps == {"add_song_to_playlist", "add_album_to_playlist", "clear_playlist"}

\* C14: only ping() and connect() turn a failure into another one:
\* InvalidAuthError comes from ping() alone, CannotConnectError from ping()
\* and connect() alone, and a failure of a remote call made by call_method or
\* by a query, control or playback operation ends that operation at once with
\* that very failure.
C14_FailuresPropagateUnchanged ==
    \A t \in Callers :
        /\ (pc[t] = "done" /\ res[t].kind = "raise") =>
              /\ res[t].val = "InvalidAuthError" => op[t] = "ping"
              /\ res[t].val = "CannotConnectError" => op[t] \in {"ping", "connect"}
        /\ op[t] \in ControlOps \cup QueryOps \cup PlaybackOps =>
              \A i \in 1..Len(log[t]) :
                  (log[t][i].awaited /\ log[t][i].out.kind = "raise") =>
                      /\ i = Len(log[t])
                      /\ pc[t] = "done"
                      /\ res[t].kind = "raise"
                      /\ res[t] = log[t][i].out

C14_Witness ==
    \E t \in Callers :
        /\ Ended(t, "call_method")
        /\ Len(log[t]) = 1
        /\ log[t][1].out.kind = "raise"
        /\ log[t][1].out.val = "TransportError"
        /\ log[t][1].out.msg = ping_marker
        /\ res[t] = log[t][1].out

ClientOps == {"ping"} \cup ControlOps \cup QueryOps \cup PlaybackOps \cup PlaylistOps

\* C15 (as claimed): every operation of a client that holds a dispatch handle
\* and returns has issued exactly one or two remote calls, the fetch of the
\* active players counted.
C15_OneOrTwoCalls ==
    \A t \in Callers :
        (pc[t] = "done" /\ op[t] \in ClientOps /\ kodi_server /= None
            /\ res[t].kind = "return") =>
            Len(log[t]) \in {1, 2}

\* C15 (amended): every operation of a client that holds a dispatch handle
\* issues at most three remote calls: three only in previous_track, which
\* with an active player fetches the players, seeks to the start and goes to
\* the previous item; none only when an argument cannot be evaluated
\* (KeyError, ValueError) before the call; one or two otherwise, whatever
\* the number of active players.
C15_AtMostThreeCalls ==
    \A t \in Callers :
        (pc[t] = "done" /\ op[t] \in ClientOps /\ kodi_server /= None) =>
            /\ Len(log[t]) \in 0..3
            /\ Len(log[t]) = 3 =>
                 /\ op[t] = "previous_track"
                 /\ log[t][1].method = "Player.GetActivePlayers"
                 /\ log[t][2].method = "Player.Seek"
                 /\ log[t][3].method = "Player.GoTo"
            /\ Len(log[t]) = 0 =>
                 /\ op[t] \in {"get_player_properties",
                               "get_playing_item_properties", "get_songs"}
                 /\ res[t] \in {Raised("KeyError"), Raised("ValueError")}
            /\ (op[t] = "previous_track" /\ res[t] = Returned(None)
                 /\ players[t] /= <<>>) => Len(log[t]) = 3

C15_Witness ==
    \E t \in Callers :
        /\ Ended(t, "previous_track")
        /\ Len(players[t]) = 2
        /\ Len(log[t]) = 3
        /\ res[t] = Returned(None)

\* C16: for a position of S whole seconds and M milliseconds, media_seek
\* with an active player sends one Player.Seek to the first listed player
\* with the time {milliseconds: M, seconds: S mod 60,
\* minutes: (S div 60) mod 60, hours: S div 3600}, and with no player sends
\* no seek.
C16_SeekTimeDecomposition ==
    \A t \in Callers :
        (op[t] = "media_seek" /\ pc[t] = "done") =>
            LET S == arg[t][1] \div 1000
                M == arg[t][1] % 1000
            IN  /\ Len(log[t]) <= 2
                /\ Len(log[t]) = 2 =>
                     /\ players[t] /= <<>>
                     /\ log[t][2].method = "Player.Seek"
                     /\ log[t][2].args =
                          <<players[t][1].playerid,
                            [milliseconds |-> M,
                             seconds |-> S % 60,
                             minutes |-> (S \div 60) % 60,
                             hours |-> S \div 3600]>>
                /\ (players[t] = <<>> /\ Len(log[t]) >= 1
                      /\ log[t][1].out.kind = "return") =>
                     /\ Len(log[t]) = 1
                     /\ res[t] = Returned(None)

\* The reference names the image scheme: it starts with "image:", in any
\* letter case.
HasImageScheme(text) ==
    /\ Len(text) >= 6
    /\ [i \in 1..5 |-> lower(text[i])] = <<"i", "m", "a", "g", "e">>
    /\ text[6] = ":"

\* The image base URL each way of building the connection gives.
ExpectedImageUrl ==
    IF username = Absent
    THEN IF ssl = "True" THEN 
                <<"h", "t", "t", "p", "s", ":", "/", "/", "k", "o", "d", "i", ":", "8", "0", "8", "0", "/", "i", "m", "a", "g", "e">> ELSE 
                <<"h", "t", "t", "p", ":", "/", "/", "k", "o", "d", "i", ":", "8", "0", "8", "0", "/", "i", "m", "a", "g", "e">>
    ELSE IF ssl = "True" THEN 
                <<"h", "t", "t", "p", "s", ":", "/", "/", "x", "b", "m", "c", ":", "p", "w", "@", "k", "o", "d", "i", ":", "8", "0", "8", "0", "/", "i", "m", "a", "g", "e">> ELSE 
                <<"h", "t", "t", "p", ":", "/", "/", "x", "b", "m", "c", ":", "p", "w", "@", "k", "o", "d", "i", ":", "8", "0", "8", "0", "/", "i", "m", "a", "g", "e">>

\* C17: thumbnail_url returns None for a None reference and for a reference
\* of any scheme but "image", and for an "image" reference the image base
\* URL, "/" and the form-encoded reference; the image base URL is the one
\* built at construction in every state; the client returns what the
\* connection returns.
C17_ThumbnailUrl ==
    /\ _image_url = ExpectedImageUrl
    /\ \A t \in Callers :
         Ended(t, "thumbnail_url") =>
            LET thumbnail == arg[t][1]
                url == res[t].val
            IN  /\ res[t].kind = "return"
                /\ log[t] = <<>>
                /\ url = KodiConnection_thumbnail_url(thumbnail)
                /\ thumbnail = Absent => url = Absent
                /\ (thumbnail /= Absent /\ ~HasImageScheme(thumbnail[1])) =>
                     url = Absent
                /\ (thumbnail /= Absent /\ HasImageScheme(thumbnail[1])) =>
                     /\ url /= Absent
                     /\ SubSeq(url[1], 1, Len(ExpectedImageUrl) + 1) =
                          ExpectedImageUrl \o <<"/">>
                     /\ SubSeq(url[1], Len(ExpectedImageUrl) + 2, Len(url[1])) =
                          quote_plus(thumbnail[1])
                /\ thumbnail = Some(<<"i", "m", "a", "g", "e", ":", "/", "/", "f", "o", "o", "%", "2", "0", "b", "a", "r", "/">>) =>
                     url = Some(ExpectedImageUrl \o
                                <<"/", "i", "m", "a", "g", "e", "%", "3", "A", "%", "2", "F", "%", "2", "F", "f", "o", "o", "%", "2", "5", "2", "0", "b", "a", "r", "%", "2", "F">>)

C17_Witness ==
    /\ closes_done >= 1
    /\ username /= Absent
    /\ \E t \in Callers :
         /\ Ended(t, "thumbnail_url")
         /\ arg[t][1] = Some(<<"i", "m", "a", "g", "e", ":", "/", "/", "f", "o", "o", "%", "2", "0", "b", "a", "r", "/">>)
         /\ res[t].val /= Absent

\* Both callers are inside op name, and each began it before any call of
\* the other had ended: the two calls overlap.
Overlapping(name) ==
    \A t \in Callers :
        /\ op[t] = name
        /\ snap[t].ev.what = "init"

\* C19 (as claimed): when two close() calls overlap, the session's close is
\* invoked at most once and neither close() fails.
C19_OverlappingCloseReleasesOnce ==
    Overlapping("close") =>
        /\ session_closes <= 1
        /\ \A t \in Callers : pc[t] = "done" => res[t] = Returned(None)

\* C19 (amended): in every interleaving of close() calls a supplied session
\* is never closed; an owned session's close is invoked a second time only
\* by a close() that reaches the ownership test while another close() is
\* suspended in the await of the session's close, and never more often than
\* there are overlapping calls; and a close() fails only with the
\* AttributeError of a cleared websocket reference.
C19_SecondReleaseOnlyWhileSuspended ==
    /\ [](supplied_session /= None => session_closes = 0)
    /\ [](session_closes <= Cardinality(Callers))
    /\ [][(session_closes' > session_closes /\ session_closes >= 1) =>
            \E u \in Callers : pc[u] = "session_close" /\ pc'[u] = "session_close"]_vars
    /\ [](\A t \in Callers :
            (Ended(t, "close") /\ res[t].kind = "raise") =>
                /\ IsWS
                /\ res[t] = Raised("AttributeError")
                /\ _ws_server = None)

C19_Witness ==
    /\ Overlapping("close")
    /\ session_closes = 2
    /\ \A t \in Callers : pc[t] = "done" /\ res[t] = Returned(None)

\* C20 (as claimed): when two connect() calls on a WebSocket connection that
\* was never connected overlap, at most one handshake is made in total.
C20_OverlappingConnectOneHandshake ==
    (IsWS /\ Overlapping("connect")) => handshakes <= 1

\* C20 (amended): in every interleaving a handshake is started only by a
\* connect() that finds the connection not connected at its start, one per
\* such call; a connect() that starts while the connection is connected
\* makes none; so two connect() calls that overlap on a disconnected
\* connection make one handshake each.
C20_OneHandshakePerUnconnectedCall ==
    /\ [][handshakes' /= handshakes =>
            /\ handshakes' = handshakes + 1
            /\ ~truthy(connected)
            /\ \E t \in Callers :
                 /\ pc[t] = "idle" /\ pc'[t] = "ws_connect"
                 /\ op'[t] = "connect"]_vars
    /\ [](\A t \in Callers :
            (op[t] = "connect" /\ truthy(snap[t].connected)) =>
                /\ pc[t] = "done"
                /\ res[t] = Returned(None)
                /\ log[t] = <<>>)
    /\ [](\A t \in Callers :
            (IsWS /\ op[t] = "connect" /\ ~truthy(snap[t].connected)
                /\ ~snap[t].closed /\ closes_done = 0 /\ _ws_server /= None) =>
                /\ handshakes >= 1
                /\ pc[t] = "done" => Len(log[t]) = 1)
    /\ [](handshakes <= ops_started)

C20_Witness ==
    /\ IsWS
    /\ Overlapping("connect")
    /\ handshakes = 2
    /\ \A t \in Callers : pc[t] = "done" /\ res[t] = Returned(None)

====
